---- MODULE Spec2Model ----
(***************************************************************************)
(* Model of inspircd-auth-gate-generator.py: one invocation of main() is   *)
(* a sequential process (fetch, render, emit).  Text is modelled as a      *)
(* sequence of one-character strings, so that line splitting, the          *)
(* formatting of the f-strings and the written output are computed         *)
(* character by character.                                                 *)
(***************************************************************************)
EXTENDS Integers, Sequences, FiniteSets, TLC

\* ---------------------------------------------------------------- bounds
\* longest response body (in characters) the server may return
MaxBodyLen == 3

\* number of distinct values uuid.uuid4() may return in the model
NumUUIDs == 2

\* number of invocations of the script in the multi-run specification
MaxRuns == 2

\* longest response body in the multi-run specification
MaxRunBodyLen == 1

\* ------------------------------------------------------- string literals
\* 'URL request did not return OK status'
NOTICE ==
  <<"U","R","L"," ","r","e","q","u","e","s","t"," ","d","i","d"," ","n","o",
    "t"," ","r","e","t","u","r","n"," ","O","K"," ","s","t","a","t","u","s">>

\* 'auth-gate-'
CLASS_PREFIX ==
  <<"a","u","t","h","-","g","a","t","e","-">>

\* '    allow="'
ALLOW_OPEN ==
  <<" "," "," "," ","a","l","l","o","w","=","\"">>

\* '    deny="'
DENY_OPEN ==
  <<" "," "," "," ","d","e","n","y","=","\"">>

\* '<connect name="'
ALLOW_HEAD ==
  <<"<","c","o","n","n","e","c","t"," ","n","a","m","e","=","\"">>

\* '\n    registered="true"\n    requireaccount="yes"\n    parent="'
ALLOW_TAIL ==
  <<"\n"," "," "," "," ","r","e","g","i","s","t","e","r","e","d","=","\"","t",
    "r","u","e","\"","\n"," "," "," "," ","r","e","q","u","i","r","e","a","c",
    "c","o","u","n","t","=","\"","y","e","s","\"","\n"," "," "," "," ","p",
    "a","r","e","n","t","=","\"">>

\* '<connect\n'
DENY_HEAD ==
  <<"<","c","o","n","n","e","c","t","\n">>

\* '\n    registered="true"\n    reason="'
DENY_TAIL ==
  <<"\n"," "," "," "," ","r","e","g","i","s","t","e","r","e","d","=","\"","t",
    "r","u","e","\"","\n"," "," "," "," ","r","e","a","s","o","n","=","\"">>

\* '">'
BLOCK_END ==
  <<"\"",">">>

\* '# Authentication gate configuration auto-generated by inspircd-auth-gate-generator.py\n'
HEADER_COMMENT ==
  <<"#"," ","A","u","t","h","e","n","t","i","c","a","t","i","o","n"," ","g",
    "a","t","e"," ","c","o","n","f","i","g","u","r","a","t","i","o","n"," ",
    "a","u","t","o","-","g","e","n","e","r","a","t","e","d"," ","b","y"," ",
    "i","n","s","p","i","r","c","d","-","a","u","t","h","-","g","a","t","e",
    "-","g","e","n","e","r","a","t","o","r",".","p","y","\n">>

NL == <<"\n">>

QUOTE == <<"\"">>

\* --------------------------------------------------------------- inputs
\* 'Identify please'
MsgPlain ==
  <<"I","d","e","n","t","i","f","y"," ","p","l","e","a","s","e">>

\* 'say "hi"'
MsgQuoted ==
  <<"s","a","y"," ","\"","h","i","\"">>

\* 'main'
ParentMain ==
  <<"m","a","i","n">>

\* 'a"b'
ParentQuoted ==
  <<"a","\"","b">>

\* 'gate.conf'
OutPath ==
  <<"g","a","t","e",".","c","o","n","f">>

\* 'old\n'
OldContent ==
  <<"o","l","d","\n">>

\* values of --message, --parent and --output tried
Messages == {MsgPlain, MsgQuoted}

Parents == {ParentMain, ParentQuoted}

Outputs == {<<>>, OutPath}

\* HTTP status codes of a completed GET
Statuses == {200, 404}

\* characters of a response body: an ordinary character and line endings
BodyChars == {"7", "\n", "\r"}

BodiesUpTo(n) == UNION {[1..k -> BodyChars] : k \in 0..n}

Bodies == BodiesUpTo(MaxBodyLen)

RunBodies == BodiesUpTo(MaxRunBodyLen)

DigitChars == <<"0","1","2","3","4","5","6","7","8","9">>

\* the strings str(uuid.uuid4()) may evaluate to (abstracted to NumUUIDs values)
UUIDs == {<<"u", DigitChars[(k % 10) + 1]>> : k \in 1..NumUUIDs}

\* the state of the file at args.output
NoFile == [exists |-> FALSE, content |-> <<>>]

OldFile == [exists |-> TRUE, content |-> OldContent]

NoResponse == [status_code |-> 0, text |-> <<>>]

NoArgs == [message |-> <<>>, output |-> <<>>, parent |-> <<>>]

\* ----------------------------------------------------------------- state
VARIABLES
  pc,            \* position of the running invocation in main()
  run,           \* number of the running invocation (1 = first)
  names,         \* class names generated by the earlier invocations
  server_body,   \* body the server at args.url answers with
  args,          \* parsed command line: message, output, parent
  res,           \* the response: status_code and text
  ip_addresses,  \* list of lines of the response
  class_name,    \* name of the allow block
  i,             \* iterations of the render loop done
  allow,         \* accumulated allow="" entries
  deny,          \* accumulated deny="" entries
  allow_block,
  deny_block,
  f,             \* target of the with statement: "none", "file", "stdout"
  file,          \* file at args.output: exists, content
  file_prior,    \* the file as the invocation found it
  file_open,     \* the output file is open
  stdout_open,   \* sys.stdout is open
  out,           \* text written to standard output
  err,           \* text written to standard error
  nwritten,      \* f.write calls completed
  exit_code,     \* -1 while running, 0 on success, 1 after an exception
  get_calls,     \* requests.get calls issued by the invocation
  uuid_calls,    \* uuid.uuid4 calls issued by the invocation
  open_calls     \* open() calls issued by the invocation

vars == <<pc, run, names, server_body, args, res, ip_addresses, class_name, i,
          allow, deny, allow_block, deny_block, f, file, file_prior,
          file_open, stdout_open, out, err, nwritten, exit_code, get_calls,
          uuid_calls, open_calls>>

\* variables of the fetch stage
fetchVars == <<res, ip_addresses, err, get_calls>>

\* variables of the render stage
renderVars == <<class_name, i, allow, deny, allow_block, deny_block, uuid_calls>>

\* variables of the emit stage
emitVars == <<f, file, file_open, stdout_open, out, nwritten, open_calls>>

\* variables no step of an invocation changes
envVars == <<run, names, server_body, file_prior>>

\* ------------------------------------------------------ library functions
Last(s) == s[Len(s)]

Front(s) == SubSeq(s, 1, Len(s) - 1)

\* str.splitlines(): "\n", "\r" and "\r\n" end a line; a last line without
\* line ending is kept, an empty remainder is not
RECURSIVE SplitFrom(_, _, _)
SplitFrom(s, k, cur) ==
  IF k > Len(s)
    THEN IF cur = <<>> THEN <<>> ELSE <<cur>>
    ELSE IF s[k] = "\n"
      THEN <<cur>> \o SplitFrom(s, k + 1, <<>>)
      ELSE IF s[k] = "\r"
        THEN <<cur>> \o SplitFrom(s, IF k < Len(s) /\ s[k + 1] = "\n"
                                        THEN k + 2 ELSE k + 1, <<>>)
        ELSE SplitFrom(s, k + 1, Append(cur, s[k]))

splitlines(s) == SplitFrom(s, 1, <<>>)

\* Response.iter_lines(decode_unicode=True) of a body that fits one chunk:
\* the chunk is split with splitlines(); a last line that does not end with
\* a line ending is held back as pending and yielded after the last chunk
iter_lines(text) ==
  IF text = <<>>
    THEN <<>>
    ELSE LET lines == splitlines(text)
             pending == /\ lines # <<>>
                        /\ Last(lines) # <<>>
                        /\ Last(Last(lines)) = Last(text)
         IN  IF pending THEN Front(lines) \o <<Last(lines)>> ELSE lines

\* print(x, file=stream)
print(stream, x) == stream \o x \o NL

\* the five arguments of f.write, in order
Writes ==
  <<HEADER_COMMENT, allow_block, NL, deny_block, NL>>

NumWrites == Len(Writes)

use_file == Len(args.output) # 0

\* ----------------------------------------------------------------- Init
InitRun ==
  /\ pc = "parse_args"
  /\ run = 1
  /\ names = <<>>
  /\ args = NoArgs
  /\ res = NoResponse
  /\ ip_addresses = <<>>
  /\ class_name = <<>>
  /\ i = 0
  /\ allow = <<>>
  /\ deny = <<>>
  /\ allow_block = <<>>
  /\ deny_block = <<>>
  /\ f = "none"
  /\ file \in {NoFile, OldFile}
  /\ file_prior = file
  /\ file_open = FALSE
  /\ stdout_open = TRUE
  /\ out = <<>>
  /\ err = <<>>
  /\ nwritten = 0
  /\ exit_code = -1
  /\ get_calls = 0
  /\ uuid_calls = 0
  /\ open_calls = 0

Init ==
  /\ InitRun
  /\ server_body \in Bodies

InitRuns ==
  /\ InitRun
  /\ server_body \in RunBodies

\* ---------------------------------------------------------------- fetch
\* ParseArgs as it would be if the output file were opened while the
\* arguments are parsed, ahead of the fetch
ParseArgs_OpenEarly ==
  /\ pc = "parse_args"
  /\ \E m \in Messages, o \in Outputs, p \in Parents :
       /\ args' = [message |-> m, output |-> o, parent |-> p]
       /\ file' = IF Len(o) # 0 THEN [exists |-> TRUE, content |-> <<>>] ELSE file
  /\ pc' = "get"
  /\ UNCHANGED <<fetchVars, renderVars, f, file_open, stdout_open, out,
                 nwritten, open_calls, envVars, exit_code>>

\* args = parser.parse_args()
ParseArgs ==
  /\ pc = "parse_args"
  /\ \E m \in Messages, o \in Outputs, p \in Parents :
       args' = [message |-> m, output |-> o, parent |-> p]
  /\ pc' = "get"
  /\ UNCHANGED <<fetchVars, renderVars, emitVars, envVars, exit_code>>

\* res = requests.get(args.url, timeout=10) returns a response
GetReturns ==
  /\ pc = "get"
  /\ \E s \in Statuses : res' = [status_code |-> s, text |-> server_body]
  /\ get_calls' = get_calls + 1
  /\ pc' = "check_status"
  /\ UNCHANGED <<args, ip_addresses, err, renderVars, emitVars, envVars, exit_code>>

\* GetRaises as it would be if a failed GET were tried again
GetRaises_Retry ==
  /\ pc = "get"
  /\ get_calls' = get_calls + 1
  /\ pc' = "get"
  /\ UNCHANGED <<args, res, ip_addresses, err, renderVars, emitVars, envVars,
                 exit_code>>

\* requests.get raises (timeout, DNS failure, connection refused): the
\* exception is not caught and ends the process
GetRaises ==
  /\ pc = "get"
  /\ get_calls' = get_calls + 1
  /\ pc' = "failed"
  /\ exit_code' = 1
  /\ UNCHANGED <<args, res, ip_addresses, err, renderVars, emitVars, envVars>>

\* CheckStatus as it would be if a status other than 200 ended the run
CheckStatus_Abort ==
  /\ pc = "check_status"
  /\ err' = IF res.status_code # 200
              THEN print(print(err, NOTICE), res.text)
              ELSE err
  /\ pc' = IF res.status_code # 200 THEN "failed" ELSE "iter_lines"
  /\ exit_code' = IF res.status_code # 200 THEN 1 ELSE exit_code
  /\ UNCHANGED <<args, res, ip_addresses, get_calls, renderVars, emitVars,
                 envVars>>

\* if res.status_code != 200: print the notice and res.text to stderr
CheckStatus ==
  /\ pc = "check_status"
  /\ err' = IF res.status_code # 200
              THEN print(print(err, NOTICE), res.text)
              ELSE err
  /\ pc' = "iter_lines"
  /\ UNCHANGED <<args, res, ip_addresses, get_calls, renderVars, emitVars,
                 envVars, exit_code>>

\* ip_addresses = list(res.iter_lines(decode_unicode=True))
ParseIPs ==
  /\ pc = "iter_lines"
  /\ ip_addresses' = iter_lines(res.text)
  /\ pc' = "uuid"
  /\ UNCHANGED <<args, res, err, get_calls, renderVars, emitVars, envVars,
                 exit_code>>

\* --------------------------------------------------------------- render
\* class_name = f"auth-gate-{uuid.uuid4()}"; allow = ""; deny = ""
GenName ==
  /\ pc = "uuid"
  /\ \E u \in UUIDs : class_name' = CLASS_PREFIX \o u
  /\ uuid_calls' = uuid_calls + 1
  /\ allow' = <<>>
  /\ deny' = <<>>
  /\ i' = 0
  /\ pc' = "loop"
  /\ UNCHANGED <<args, fetchVars, allow_block, deny_block, emitVars, envVars,
                 exit_code>>

\* LoopStep as it would be if the last iteration added no entry
LoopStep_DropLast ==
  /\ pc = "loop"
  /\ i < Len(ip_addresses)
  /\ LET ip == ip_addresses[i + 1]
     IN  IF i < Len(ip_addresses) - 1
           THEN /\ allow' = allow \o ALLOW_OPEN \o ip \o QUOTE \o NL
                /\ deny' = deny \o DENY_OPEN \o ip \o QUOTE \o NL
           ELSE UNCHANGED <<allow, deny>>
  /\ i' = i + 1
  /\ UNCHANGED <<pc, args, fetchVars, class_name, allow_block, deny_block,
                 uuid_calls, emitVars, envVars, exit_code>>

\* LoopStep as it would be if every entry, the last included, were followed
\* by a newline
LoopStep_AlwaysNewline ==
  /\ pc = "loop"
  /\ i < Len(ip_addresses)
  /\ LET ip == ip_addresses[i + 1]
     IN  /\ allow' = allow \o ALLOW_OPEN \o ip \o QUOTE \o NL
         /\ deny' = deny \o DENY_OPEN \o ip \o QUOTE \o NL
  /\ i' = i + 1
  /\ UNCHANGED <<pc, args, fetchVars, class_name, allow_block, deny_block,
                 uuid_calls, emitVars, envVars, exit_code>>

\* one iteration of: for i, ip in enumerate(ip_addresses)
LoopStep ==
  /\ pc = "loop"
  /\ i < Len(ip_addresses)
  /\ LET ip == ip_addresses[i + 1]
     IN  IF i < Len(ip_addresses) - 1
           THEN /\ allow' = allow \o ALLOW_OPEN \o ip \o QUOTE \o NL
                /\ deny' = deny \o DENY_OPEN \o ip \o QUOTE \o NL
           ELSE /\ allow' = allow \o ALLOW_OPEN \o ip \o QUOTE
                /\ deny' = deny \o DENY_OPEN \o ip \o QUOTE
  /\ i' = i + 1
  /\ UNCHANGED <<pc, args, fetchVars, class_name, allow_block, deny_block,
                 uuid_calls, emitVars, envVars, exit_code>>

\* BuildBlocks as it would be if the allow block were named with a second
\* call of uuid4 instead of class_name
BuildBlocks_FreshUuid ==
  /\ pc = "loop"
  /\ i = Len(ip_addresses)
  /\ \E u \in UUIDs :
       allow_block' = ALLOW_HEAD \o CLASS_PREFIX \o u \o QUOTE \o NL \o allow
                        \o ALLOW_TAIL \o args.parent \o BLOCK_END
  /\ uuid_calls' = uuid_calls + 1
  /\ deny_block' = DENY_HEAD \o deny \o DENY_TAIL \o args.message \o BLOCK_END
  /\ pc' = "open"
  /\ UNCHANGED <<args, fetchVars, class_name, i, allow, deny, emitVars,
                 envVars, exit_code>>

\* the loop is exhausted: allow_block and deny_block are formatted
BuildBlocks ==
  /\ pc = "loop"
  /\ i = Len(ip_addresses)
  /\ allow_block' = ALLOW_HEAD \o class_name \o QUOTE \o NL \o allow
                      \o ALLOW_TAIL \o args.parent \o BLOCK_END
  /\ deny_block' = DENY_HEAD \o deny \o DENY_TAIL \o args.message \o BLOCK_END
  /\ pc' = "open"
  /\ UNCHANGED <<args, fetchVars, class_name, i, allow, deny, uuid_calls,
                 emitVars, envVars, exit_code>>

\* ----------------------------------------------------------------- emit
\* with open(args.output, "w", encoding="utf8") if use_file else stdout as f
Open ==
  /\ pc = "open"
  /\ IF use_file
       THEN /\ open_calls' = open_calls + 1
            /\ file' = [exists |-> TRUE, content |-> <<>>]
            /\ file_open' = TRUE
            /\ f' = "file"
       ELSE /\ f' = "stdout"
            /\ UNCHANGED <<open_calls, file, file_open>>
  /\ pc' = "write"
  /\ UNCHANGED <<args, fetchVars, renderVars, stdout_open, out, nwritten,
                 envVars, exit_code>>

\* open() raises (missing directory, no permission): nothing is opened
OpenRaises ==
  /\ pc = "open"
  /\ use_file
  /\ open_calls' = open_calls + 1
  /\ pc' = "failed"
  /\ exit_code' = 1
  /\ UNCHANGED <<args, fetchVars, renderVars, f, file, file_open, stdout_open,
                 out, nwritten, envVars>>

\* Write as it would be if the text were echoed to standard output while it
\* is written to the file
Write_Tee ==
  /\ pc = "write"
  /\ nwritten < NumWrites
  /\ IF f = "file"
       THEN /\ file' = [file EXCEPT !.content = @ \o Writes[nwritten + 1]]
            /\ out' = out \o Writes[nwritten + 1]
       ELSE /\ out' = out \o Writes[nwritten + 1]
            /\ UNCHANGED file
  /\ nwritten' = nwritten + 1
  /\ UNCHANGED <<pc, args, fetchVars, renderVars, f, file_open, stdout_open,
                 open_calls, envVars, exit_code>>

\* the next f.write(...) of the with body; the text counts as part of the
\* target as soon as it is written (buffering is not modelled)
Write ==
  /\ pc = "write"
  /\ nwritten < NumWrites
  /\ IF f = "file"
       THEN /\ file' = [file EXCEPT !.content = @ \o Writes[nwritten + 1]]
            /\ UNCHANGED out
       ELSE /\ out' = out \o Writes[nwritten + 1]
            /\ UNCHANGED file
  /\ nwritten' = nwritten + 1
  /\ UNCHANGED <<pc, args, fetchVars, renderVars, f, file_open, stdout_open,
                 open_calls, envVars, exit_code>>

\* WriteRaises as it would be without the with statement: the exception
\* leaves f open
WriteRaises_NoClose ==
  /\ pc = "write"
  /\ nwritten < NumWrites
  /\ pc' = "failed"
  /\ exit_code' = 1
  /\ UNCHANGED <<args, fetchVars, renderVars, emitVars, envVars>>

\* the next f.write(...) raises: the with statement closes f on the way out
WriteRaises ==
  /\ pc = "write"
  /\ nwritten < NumWrites
  /\ IF f = "file"
       THEN file_open' = FALSE /\ UNCHANGED stdout_open
       ELSE stdout_open' = FALSE /\ UNCHANGED file_open
  /\ pc' = "failed"
  /\ exit_code' = 1
  /\ UNCHANGED <<args, fetchVars, renderVars, f, file, out, nwritten,
                 open_calls, envVars>>

\* the with body is done: f is closed and main() returns
Close ==
  /\ pc = "write"
  /\ nwritten = NumWrites
  /\ IF f = "file"
       THEN file_open' = FALSE /\ UNCHANGED stdout_open
       ELSE stdout_open' = FALSE /\ UNCHANGED file_open
  /\ pc' = "done"
  /\ exit_code' = 0
  /\ UNCHANGED <<args, fetchVars, renderVars, f, file, out, nwritten,
                 open_calls, envVars>>

\* the script is invoked again: a new process with the same file system
NewRun ==
  /\ pc \in {"done", "failed"}
  /\ run < MaxRuns
  /\ run' = run + 1
  /\ names' = IF class_name # <<>> THEN Append(names, class_name) ELSE names
  /\ file_prior' = file
  /\ pc' = "parse_args"
  /\ args' = NoArgs
  /\ res' = NoResponse
  /\ ip_addresses' = <<>>
  /\ class_name' = <<>>
  /\ i' = 0
  /\ allow' = <<>>
  /\ deny' = <<>>
  /\ allow_block' = <<>>
  /\ deny_block' = <<>>
  /\ f' = "none"
  /\ stdout_open' = TRUE
  /\ out' = <<>>
  /\ err' = <<>>
  /\ nwritten' = 0
  /\ exit_code' = -1
  /\ get_calls' = 0
  /\ uuid_calls' = 0
  /\ open_calls' = 0
  /\ UNCHANGED <<server_body, file, file_open>>

\* ------------------------------------------------------- specifications
Next ==
  \/ ParseArgs
  \/ GetReturns
  \/ GetRaises
  \/ CheckStatus
  \/ ParseIPs
  \/ GenName
  \/ LoopStep
  \/ BuildBlocks
  \/ Open
  \/ OpenRaises
  \/ Write
  \/ WriteRaises
  \/ Close

Spec == Init /\ [][Next]_vars

NextRuns ==
  \/ Next
  \/ NewRun

SpecRuns == InitRuns /\ [][NextRuns]_vars

\* ------------------------------------------------- vocabulary of the claims
\* '# Authentication gate configuration auto-generated by inspircd-auth-gate-generator.py'
HeaderLine ==
  <<"#"," ","A","u","t","h","e","n","t","i","c","a","t","i","o","n"," ","g",
    "a","t","e"," ","c","o","n","f","i","g","u","r","a","t","i","o","n"," ",
    "a","u","t","o","-","g","e","n","e","r","a","t","e","d"," ","b","y"," ",
    "i","n","s","p","i","r","c","d","-","a","u","t","h","-","g","a","t","e",
    "-","g","e","n","e","r","a","t","o","r",".","p","y">>

\* '    registered="true"'
RegisteredLine ==
  <<" "," "," "," ","r","e","g","i","s","t","e","r","e","d","=","\"","t","r",
    "u","e","\"">>

\* '    requireaccount="yes"'
RequireAccountLine ==
  <<" "," "," "," ","r","e","q","u","i","r","e","a","c","c","o","u","n","t",
    "=","\"","y","e","s","\"">>

\* '    parent="'
ParentOpen ==
  <<" "," "," "," ","p","a","r","e","n","t","=","\"">>

\* '    reason="'
ReasonOpen ==
  <<" "," "," "," ","r","e","a","s","o","n","=","\"">>

\* '<connect'
ConnectLine ==
  <<"<","c","o","n","n","e","c","t">>

\* '<connect name="'
NameOpen ==
  <<"<","c","o","n","n","e","c","t"," ","n","a","m","e","=","\"">>

\* '    allow="'
AllowPrefix ==
  <<" "," "," "," ","a","l","l","o","w","=","\"">>

\* '    deny="'
DenyPrefix ==
  <<" "," "," "," ","d","e","n","y","=","\"">>

\* 'auth-gate-'
NamePrefix ==
  <<"a","u","t","h","-","g","a","t","e","-">>

\* positions of the "\n" characters of s
NewlinesOf(s) == {k \in 1..Len(s) : s[k] = "\n"}

\* position of the j-th "\n" of s; 0 before the first line, Len(s) + 1 after
\* the last
NthNewline(s, j) ==
  IF j = 0 THEN 0
  ELSE IF j > Cardinality(NewlinesOf(s)) THEN Len(s) + 1
  ELSE CHOOSE k \in NewlinesOf(s) :
         Cardinality({m \in NewlinesOf(s) : m <= k}) = j

\* the pieces of s between "\n" characters (an empty s is one empty line)
LinesOf(s) ==
  [j \in 1..(Cardinality(NewlinesOf(s)) + 1) |->
     SubSeq(s, NthNewline(s, j - 1) + 1, NthNewline(s, j) - 1)]

\* the lines joined by "\n", no "\n" after the last
RECURSIVE JoinLines(_)
JoinLines(ls) ==
  IF ls = <<>> THEN <<>>
  ELSE IF Len(ls) = 1 THEN ls[1]
  ELSE ls[1] \o NL \o JoinLines(Tail(ls))

HasPrefix(s, p) == Len(s) >= Len(p) /\ SubSeq(s, 1, Len(p)) = p

IsAllowLine(l) == HasPrefix(l, AllowPrefix)

IsDenyLine(l) == HasPrefix(l, DenyPrefix)

AllowLine(ip) == AllowPrefix \o ip \o QUOTE

DenyLine(ip) == DenyPrefix \o ip \o QUOTE

MapLines(Op(_), ips) == [k \in 1..Len(ips) |-> Op(ips[k])]

\* the text the invocation has emitted to its destination
Emitted == IF use_file THEN file.content ELSE out

\* both blocks have been formatted
Rendered == allow_block # <<>>

\* the GET of this invocation was issued and raised
GetFailed == get_calls > 0 /\ res = NoResponse

\* the text of the output: header comment, allow block, deny block
FullText(ips, name, parent, message) ==
  HeaderLine \o NL
    \o NameOpen \o name \o QUOTE \o NL
    \o JoinLines(MapLines(AllowLine, ips)) \o NL
    \o RegisteredLine \o NL \o RequireAccountLine \o NL
    \o ParentOpen \o parent \o QUOTE \o <<">">> \o NL
    \o ConnectLine \o NL
    \o JoinLines(MapLines(DenyLine, ips)) \o NL
    \o RegisteredLine \o NL
    \o ReasonOpen \o message \o QUOTE \o <<">">> \o NL

\* the lines of the output for a list of at least one entry
ExpectedLines(ips, name, parent, message) ==
  <<HeaderLine, NameOpen \o name \o QUOTE>>
    \o MapLines(AllowLine, ips)
    \o <<RegisteredLine, RequireAccountLine,
         ParentOpen \o parent \o QUOTE \o <<">">>,
         ConnectLine>>
    \o MapLines(DenyLine, ips)
    \o <<RegisteredLine, ReasonOpen \o message \o QUOTE \o <<">">> >>

\* ----------------------------------------------------------------- claims

\* C1: once the blocks are rendered from a list of N entries, the allow
\* block has exactly N allow="..." lines and the deny block exactly N
\* deny="..." lines, and the k-th such line carries the k-th entry.
C1_OneLinePerEntryInOrder ==
  Rendered =>
    LET al == SelectSeq(LinesOf(allow_block), IsAllowLine)
        dl == SelectSeq(LinesOf(deny_block), IsDenyLine)
    IN  /\ al = MapLines(AllowLine, ip_addresses)
        /\ dl = MapLines(DenyLine, ip_addresses)
        /\ SelectSeq(LinesOf(allow_block), IsDenyLine) = <<>>
        /\ SelectSeq(LinesOf(deny_block), IsAllowLine) = <<>>

C1_Witness ==
  /\ pc = "done"
  /\ Len(ip_addresses) >= 2
  /\ ip_addresses[1] # ip_addresses[2]

\* C2: the IP list has one entry per non-empty line of the response body,
\* in body order, so no entry is the empty string.
C2_NoEntryForBlankLine ==
  pc \notin {"parse_args", "get", "check_status", "iter_lines"} =>
    /\ ip_addresses = SelectSeq(splitlines(res.text), LAMBDA l : l # <<>>)
    /\ \A k \in 1..Len(ip_addresses) : ip_addresses[k] # <<>>

\* C3: with an empty list the header line of each block is directly
\* followed by the registered="true" line.
C3_EmptyListNoBlankLine ==
  (Rendered /\ ip_addresses = <<>>) =>
    /\ LinesOf(allow_block)[2] = RegisteredLine
    /\ LinesOf(deny_block)[2] = RegisteredLine

\* C4: with a non-empty output parameter nothing is ever written to standard
\* output and a completed run leaves the rendered text in the file; with an
\* empty output parameter no file is opened or changed and a completed run
\* leaves the rendered text on standard output.
C4_ExclusiveDestination ==
  LET text == HEADER_COMMENT \o allow_block \o NL \o deny_block \o NL
  IN  /\ args.output # <<>> =>
           /\ out = <<>>
           /\ pc = "done" => file = [exists |-> TRUE, content |-> text]
      /\ (args.output = <<>> /\ pc # "parse_args") =>
           /\ open_calls = 0
           /\ file = file_prior
           /\ ~file_open
           /\ pc = "done" => out = text

C4_Witness ==
  /\ pc = "done"
  /\ args.output = OutPath
  /\ file_prior = OldFile
  /\ Len(ip_addresses) >= 1

\* C5: a response whose status is not 200 does not end the run: the notice
\* and the body are on the error stream, the only failures left are those of
\* the emit stage, and a completed run has emitted the text rendered from the
\* lines of the body, whatever the status.
C5_Non200NotFatal ==
  /\ (res.status_code \notin {0, 200} /\ pc # "check_status") =>
        /\ err = NOTICE \o NL \o res.text \o NL
        /\ pc = "failed" => open_calls > 0 \/ f # "none"
  /\ res.status_code = 200 => err = <<>>
  /\ pc = "done" =>
        /\ res.status_code \in Statuses
        /\ ip_addresses = iter_lines(server_body)
        /\ Emitted = FullText(iter_lines(server_body), class_name,
                              args.parent, args.message)

C5_Witness ==
  /\ pc = "done"
  /\ res.status_code = 404
  /\ Len(ip_addresses) >= 1

\* C6: at most one GET is issued, and when it raises the run is failed with
\* a non-zero exit status and nothing has been rendered or emitted.
C6_NetworkFailureFatalNoRetry ==
  /\ get_calls <= 1
  /\ GetFailed =>
       /\ pc = "failed"
       /\ exit_code = 1
       /\ get_calls = 1
       /\ class_name = <<>>
       /\ allow_block = <<>>
       /\ deny_block = <<>>
       /\ f = "none"
       /\ open_calls = 0
       /\ nwritten = 0

C6_Witness ==
  /\ GetFailed
  /\ pc = "failed"
  /\ exit_code = 1

\* C7 (as stated): one identifier per run names the allow block, and the
\* block names of any two runs differ.
C7_NamesOfRunsDiffer ==
  LET all == IF class_name # <<>> THEN Append(names, class_name) ELSE names
  IN  \A j, k \in 1..Len(all) : j # k => all[j] # all[k]

\* C7 (amended): every run calls uuid4 exactly once, its class name is
\* "auth-gate-" followed by that identifier, and the first line of its allow
\* block carries that name.
C7_OneIdentifierNamesBlock ==
  /\ uuid_calls <= 1
  /\ (uuid_calls = 0) = (class_name = <<>>)
  /\ class_name # <<>> => \E u \in UUIDs : class_name = NamePrefix \o u
  /\ Rendered =>
       /\ uuid_calls = 1
       /\ LinesOf(allow_block)[1] = NameOpen \o class_name \o QUOTE

C7_Witness ==
  /\ run = 2
  /\ pc = "done"
  /\ Len(names) = 1
  /\ names[1] # class_name

\* C8: for a list of at least one entry the emitted text of a completed run
\* is exactly the header comment line, the allow block, the deny block, each
\* line ended by one newline, with parent and message inserted verbatim.
C8_ExactOutput ==
  (pc = "done" /\ Len(ip_addresses) >= 1) =>
    \E u \in UUIDs :
      /\ class_name = NamePrefix \o u
      /\ Emitted = JoinLines(ExpectedLines(ip_addresses, NamePrefix \o u,
                                           args.parent, args.message)) \o NL

C8_Witness ==
  /\ pc = "done"
  /\ Len(ip_addresses) >= 2
  /\ args.parent = ParentQuoted
  /\ args.message = MsgQuoted

\* C9: no terminal state has the output file open.
C9_FileClosedOnExit ==
  pc \in {"done", "failed"} => ~file_open

C9_Witness ==
  /\ pc = "failed"
  /\ f = "file"
  /\ nwritten >= 1
  /\ ~file_open

\* C10: before the emit stage, and in every run whose GET raised, the file
\* at the output path is as the run found it and standard output is empty;
\* the file differs from its prior state only once it has been opened.
C10_DestinationUntouchedBeforeEmit ==
  /\ GetFailed => file = file_prior /\ out = <<>>
  /\ pc \in {"parse_args", "get", "check_status", "iter_lines", "uuid",
             "loop", "open"} => file = file_prior /\ out = <<>> /\ ~file_open
  /\ file # file_prior => f = "file" /\ pc \in {"write", "done", "failed"}

C10_Witness ==
  /\ GetFailed
  /\ pc = "failed"
  /\ args.output = OutPath
  /\ file_prior = OldFile
  /\ file = OldFile
====
